---- MODULE Spec2Model ----
(***************************************************************************)
(* A model of url_checker_app.py: the per-URL extractor get_page_data, the *)
(* formatter format_meta_content, and the CSV batch flow with its summary  *)
(* counters.                                                               *)
(*                                                                         *)
(* Python values are records [t, s, n]: t is the type, s the characters of *)
(* a str as a sequence of tokens (each token a fixed run of characters),   *)
(* n the number of an int or float.  The token alphabet is a prefix-free   *)
(* code, so two token sequences are equal iff the strings they spell are.  *)
(***************************************************************************)
EXTENDS Integers, Sequences, FiniteSets, TLC

VARIABLES
    arg_url,        \* get_page_data: the argument of the call
    net,            \* get_page_data: what requests.get answers for this call
    result,         \* the record the last get_page_data call returned
    get_log,        \* every target requests.get was called with, in order
    pc,             \* position of the running flow
    rows,           \* batch: df[url_column], one cell per CSV row
    urls,           \* batch: urls (line 324)
    idx,            \* batch: the loop variable i (0-based, as enumerate)
    results,        \* batch: results (line 328)
    nets,           \* batch: what requests.get answered at each call so far
    call_log,       \* batch: the arguments of the get_page_data calls so far
    events,         \* batch: the loop's observable steps, in order
    status_text,    \* batch: the status line
    progress,       \* batch: numerator and denominator of the progress bar
    summary,        \* batch: the four summary counters
    fmt_in,         \* format_meta_content: content, length, field_name
    fmt_out         \* format_meta_content: what it returned

vars == <<arg_url, net, result, get_log, pc, rows, urls, idx, results, nets,
          call_log, events, status_text, progress, summary, fmt_in, fmt_out>>

-----------------------------------------------------------------------------
(* Bounds of the model *)

\* longest path, in tokens, of an input URL and of a canonical href
MaxPathLen == 2
\* most rows of the uploaded CSV
MaxRows == 3
\* longest title or description handed to format_meta_content
MaxLength == 165

-----------------------------------------------------------------------------
(* Python values *)

PyStr(s) == [t |-> "str", s |-> s, n |-> 0]
PyInt(n) == [t |-> "int", s |-> <<>>, n |-> n]
PyFloat(n) == [t |-> "float", s |-> <<>>, n |-> n]
None == [t |-> "None", s |-> <<>>, n |-> 0]
NaN == [t |-> "NaN", s |-> <<>>, n |-> 0]

\* Python truthiness: `if v:` / `not v`
Truthy(v) ==
    CASE v.t = "str" -> v.s # <<>>
      [] v.t = "None" -> FALSE
      [] v.t = "NaN" -> TRUE
      [] OTHER -> v.n # 0

\* the number of characters a token stands for
CharLen(tok) ==
    CASE tok = "https://" -> 8
      [] tok = "http://" -> 7
      [] tok \in {"a.com", "b.com", "Error"} -> 5
      [] tok = "Not found" -> 9
      [] tok \in {"noindex", "NOINDEX"} -> 7
      [] tok \in {"nofollow", "NOFOLLOW", "NoFollow"} -> 8
      [] tok = ", " -> 2
      [] tok = "all" -> 3
      [] tok = "Title" -> 5
      [] tok = "Description" -> 11
      [] OTHER -> 1

RECURSIVE PyLen(_)
\* len(s) of a str
PyLen(s) ==
    IF Len(s) = 0 THEN 0
    ELSE IF Len(s) = 1 THEN CharLen(s[1])
    ELSE PyLen(SubSeq(s, 1, Len(s) \div 2))
           + PyLen(SubSeq(s, Len(s) \div 2 + 1, Len(s)))

Whitespace == {" "}

RECURSIVE lstrip(_)
lstrip(s) == IF s # <<>> /\ Head(s) \in Whitespace THEN lstrip(Tail(s)) ELSE s

RECURSIVE rstrip(_, _)
\* s.rstrip(chars) for a set of one-character tokens
rstrip(s, chars) ==
    IF s # <<>> /\ s[Len(s)] \in chars
    THEN rstrip(SubSeq(s, 1, Len(s) - 1), chars)
    ELSE s

\* s.strip()
strip(s) == rstrip(lstrip(s), Whitespace)

\* one token lower-cased
LowerTok(tok) ==
    CASE tok = "NOINDEX" -> "noindex"
      [] tok \in {"NOFOLLOW", "NoFollow"} -> "nofollow"
      [] OTHER -> tok

\* s.lower()
lower(s) == [k \in 1..Len(s) |-> LowerTok(s[k])]

\* `word in s`, for a word that is one token of the alphabet
Contains(s, word) == \E k \in 1..Len(s) : s[k] = word

Schemes == {"http://", "https://"}

\* url.startswith(('http://', 'https://'))
startswith_scheme(s) == s # <<>> /\ s[1] \in Schemes

-----------------------------------------------------------------------------
(* urllib.parse.urljoin, on the URLs of the alphabet (no query, no fragment, *)
(* no "." or ".." segment)                                                  *)

\* the tokens of s before its first "/", and from it on
BeforeSlash(s) ==
    IF Contains(s, "/")
    THEN SubSeq(s, 1, (CHOOSE k \in 1..Len(s) :
                          s[k] = "/" /\ \A j \in 1..(k - 1) : s[j] # "/") - 1)
    ELSE s
FromSlash(s) == SubSeq(s, Len(BeforeSlash(s)) + 1, Len(s))

\* urlparse(url, default_scheme): scheme, netloc and path
urlparse(url, default_scheme) ==
    IF startswith_scheme(url)
    THEN [scheme |-> url[1], netloc |-> BeforeSlash(Tail(url)),
          path |-> FromSlash(Tail(url))]
    ELSE IF Len(url) >= 2 /\ url[1] = "/" /\ url[2] = "/"
    THEN [scheme |-> default_scheme,
          netloc |-> BeforeSlash(SubSeq(url, 3, Len(url))),
          path |-> FromSlash(SubSeq(url, 3, Len(url)))]
    ELSE [scheme |-> default_scheme, netloc |-> <<>>, path |-> url]

\* urlunparse((scheme, netloc, path, '', '', ''))
urlunparse(scheme, netloc, path) ==
    <<scheme>> \o netloc
      \o (IF netloc # <<>> /\ path # <<>> /\ path[1] # "/" THEN <<"/">> ELSE <<>>)
      \o path

RECURSIVE split(_)
\* path.split('/'): the list of segments
split(s) ==
    IF Contains(s, "/")
    THEN <<BeforeSlash(s)>> \o split(Tail(FromSlash(s)))
    ELSE <<s>>

RECURSIVE join(_)
\* '/'.join(segments)
join(segments) ==
    IF segments = <<>> THEN <<>>
    ELSE IF Len(segments) = 1 THEN segments[1]
    ELSE segments[1] \o <<"/">> \o join(Tail(segments))

\* segments[1:-1] = filter(None, segments[1:-1])
FilterMiddle(segments) ==
    IF Len(segments) <= 2 THEN segments
    ELSE <<segments[1]>>
           \o SelectSeq(SubSeq(segments, 2, Len(segments) - 1),
                        LAMBDA seg : seg # <<>>)
           \o <<segments[Len(segments)]>>

\* urljoin(base, url)
urljoin(base, url) ==
    IF base = <<>> THEN url
    ELSE IF url = <<>> THEN base
    ELSE
      LET b == urlparse(base, "")
          r == urlparse(url, b.scheme)
          base_all == split(b.path)
          base_parts == IF base_all[Len(base_all)] # <<>>
                        THEN SubSeq(base_all, 1, Len(base_all) - 1)
                        ELSE base_all
          segments == IF r.path # <<>> /\ r.path[1] = "/"
                      THEN split(r.path)
                      ELSE FilterMiddle(base_parts \o split(r.path))
          joined == join(segments)
      IN  IF r.scheme # b.scheme THEN url
          ELSE IF r.netloc # <<>> THEN urlunparse(r.scheme, r.netloc, r.path)
          ELSE IF r.path = <<>> THEN urlunparse(r.scheme, b.netloc, b.path)
          ELSE urlunparse(r.scheme, b.netloc,
                          IF joined = <<>> THEN <<"/">> ELSE joined)

-----------------------------------------------------------------------------
(* What the network and the HTML parser hand to get_page_data *)

\* soup.find(...): no tag, or the first matching tag with the one attribute
\* (or text) the code reads from it; attr = None when the tag lacks it
NoTag == [found |-> FALSE, attr |-> None]
Tag(attr) == [found |-> TRUE, attr |-> attr]

\* tag.get(name, default)
tag_get(tag, default) == IF tag.attr = None THEN default ELSE tag.attr

\* requests.get raised a RequestException with this message
Raises(message) ==
    [kind |-> "exc", err |-> message, status |-> 0, redirect |-> <<>>,
     page |-> [canonical |-> NoTag, robots |-> NoTag, title |-> NoTag,
               description |-> NoTag]]

\* requests.get returned: the status, the URL of the last redirect (<<>> when
\* the request was not redirected) and the tags of the body
Responds(status, redirect, page) ==
    [kind |-> "resp", err |-> <<>>, status |-> status, redirect |-> redirect,
     page |-> page]

\* the URL requests puts on the wire: an empty path becomes "/"
PreparedURL(url) ==
    IF urlparse(url, "").path = <<>> THEN url \o <<"/">> ELSE url

\* requests refuses a URL without a host (InvalidURL, a RequestException)
HasHost(url) == urlparse(url, "").netloc # <<>>

\* response.url: the final URL, after redirects
response_url(url, n) ==
    IF n.redirect = <<>> THEN PreparedURL(url) ELSE n.redirect

-----------------------------------------------------------------------------
(* get_page_data *)

\* Normalize without the test of line 75: the protocol is always added
Normalize_always(url) == <<"https://">> \o url

\* lines 75-76: add the protocol if missing
Normalize(url) ==
    IF ~startswith_scheme(url) THEN <<"https://">> \o url ELSE url

\* lines 140-152: the record of the RequestException handler
RequestExceptionRecord(url, e) ==
    [url |-> url, status_code |-> PyStr(<<"Error">>),
     canonical_url |-> PyStr(<<"Error">>), is_self_referring |-> FALSE,
     noindex_found |-> FALSE, nofollow_found |-> FALSE,
     meta_title |-> None, title_length |-> 0,
     meta_description |-> None, desc_length |-> 0,
     error |-> PyStr(e)]

\* the catch-all handler with the canonical of the no-tag branch (line 100)
ExceptionRecord_not_found(url, e) ==
    [url |-> url, status_code |-> PyStr(<<"Error">>),
     canonical_url |-> PyStr(<<"Not found">>), is_self_referring |-> FALSE,
     noindex_found |-> FALSE, nofollow_found |-> FALSE,
     meta_title |-> None, title_length |-> 0,
     meta_description |-> None, desc_length |-> 0,
     error |-> PyStr(e)]

\* lines 154-166: the record of the catch-all handler
ExceptionRecord(url, e) ==
    [url |-> url, status_code |-> PyStr(<<"Error">>),
     canonical_url |-> PyStr(<<"Error">>), is_self_referring |-> FALSE,
     noindex_found |-> FALSE, nofollow_found |-> FALSE,
     meta_title |-> None, title_length |-> 0,
     meta_description |-> None, desc_length |-> 0,
     error |-> PyStr(e)]

\* str(e) of the AttributeError of a method call on a value without it
NoAttribute(type, method) ==
    <<"'", type, "' object has no attribute '", method, "'">>

\* lines 90-100: canonical_url and is_self_referring
Canonical(url, n) ==
    LET canonical_tag == n.page.canonical
        href == IF canonical_tag.found THEN tag_get(canonical_tag, None)
                ELSE None
    IN  IF Truthy(href)
        THEN LET canonical_url == urljoin(url, href.s)
             IN  [canonical_url |-> PyStr(canonical_url),
                  is_self_referring |->
                      rstrip(canonical_url, {"/"})
                        = rstrip(response_url(url, n), {"/"})]
        ELSE [canonical_url |-> PyStr(<<"Not found">>),
              is_self_referring |-> FALSE]

\* lines 103-113: does the robots meta tag's content hold the directive
RobotsHas(n, directive) ==
    LET robots_meta == n.page.robots
    IN  IF robots_meta.found
        THEN Contains(lower(tag_get(robots_meta, PyStr(<<>>)).s), directive)
        ELSE FALSE

\* lines 116-117
MetaTitle(n) ==
    LET title_tag == n.page.title
    IN  IF title_tag.found THEN PyStr(strip(title_tag.attr.s)) ELSE None

\* line 122 raises when the description tag has no content attribute
DescriptionRaises(n) ==
    n.page.description.found /\ n.page.description.attr = None

\* line 122
MetaDescription(n) ==
    LET desc_tag == n.page.description
    IN  IF desc_tag.found THEN PyStr(strip(desc_tag.attr.s)) ELSE None

\* lines 118 and 123: len(x) if x else 0
LengthOf(x) == IF Truthy(x) THEN PyLen(x.s) ELSE 0

\* lines 69-166.  url is the argument; n is what requests.get does when it is
\* called with the normalized URL
get_page_data(url, n) ==
    IF url.t # "str"
    THEN ExceptionRecord(url, NoAttribute(url.t, "startswith"))
    ELSE
      LET u == Normalize(url.s)
          c == Canonical(u, n)
      IN  IF n.kind = "exc" THEN RequestExceptionRecord(PyStr(u), n.err)
          ELSE IF DescriptionRaises(n)
          THEN ExceptionRecord(PyStr(u), NoAttribute("NoneType", "strip"))
          ELSE [url |-> PyStr(u),
                status_code |-> PyInt(n.status),
                canonical_url |-> c.canonical_url,
                is_self_referring |-> c.is_self_referring,
                noindex_found |-> RobotsHas(n, "noindex"),
                nofollow_found |-> RobotsHas(n, "nofollow"),
                meta_title |-> MetaTitle(n),
                title_length |-> LengthOf(MetaTitle(n)),
                meta_description |-> MetaDescription(n),
                desc_length |-> LengthOf(MetaDescription(n)),
                error |-> None]

\* line 83: the targets get_page_data hands to requests.get, in order
GetTargets(url) == IF url.t = "str" THEN <<Normalize(url.s)>> ELSE <<>>

-----------------------------------------------------------------------------
(* The inputs the model draws from *)

SeqsUpTo(S, n) == UNION {[1..k -> S] : k \in 0..n}

\* URL paths: empty, or "/"-led runs of "/" and "p"
Paths == {s \in SeqsUpTo({"/", "p"}, MaxPathLen) : s = <<>> \/ s[1] = "/"}

\* what a user types or a CSV cell holds: a.com with or without a scheme and
\* a path, the empty string, and a number (a numeric CSV cell)
UrlInputs ==
    {PyStr(pre \o <<"a.com">> \o p) :
        pre \in {<<>>, <<"http://">>, <<"https://">>}, p \in Paths}
      \cup {PyStr(<<>>), PyFloat(7)}

\* href values: relative references, absolute URLs, the two sentinel words,
\* and the empty string
Hrefs ==
    SeqsUpTo({"/", "p"}, MaxPathLen)
      \cup {<<sc, h>> \o p : sc \in Schemes, h \in {"a.com", "b.com"}, p \in Paths}
      \cup {<<"Error">>, <<"Not found">>}

CanonicalTags == {NoTag, Tag(None)} \cup {Tag(PyStr(h)) : h \in Hrefs}
RobotsTags ==
    {NoTag, Tag(None), Tag(PyStr(<<"NOINDEX", ", ", "NoFollow">>)),
     Tag(PyStr(<<"all">>))}
TitleTags == {NoTag, Tag(PyStr(<<" ", "Title", " ">>))}
DescriptionTags == {NoTag, Tag(None), Tag(PyStr(<<"Description", " ">>))}

Pages ==
    [canonical : CanonicalTags, robots : RobotsTags, title : TitleTags,
     description : DescriptionTags]

RedirectTargets ==
    {<<>>, <<"https://", "a.com", "/">>, <<"https://", "b.com", "/", "p">>}

Statuses == {200, 404, 500}

Responses ==
    {Responds(st, rd, pg) : st \in Statuses, rd \in RedirectTargets, pg \in Pages}

TransportFailures ==
    {Raises(<<"ConnectionError">>), Raises(<<"ReadTimeout">>)}

\* no call of requests.get happens
NoCall == Raises(<<>>)

\* what requests.get can do when get_page_data(url) reaches it, out of `answers`
NetsFor(url, answers) ==
    IF url.t # "str" THEN {NoCall}
    ELSE IF ~HasHost(Normalize(url.s)) THEN {Raises(<<"InvalidURL">>)}
    ELSE answers

-----------------------------------------------------------------------------
(* get_page_data called once on an input of UrlInputs *)

NoBatch ==
    /\ rows = <<>> /\ urls = <<>> /\ idx = 0 /\ results = <<>> /\ nets = <<>>
    /\ call_log = <<>> /\ events = <<>> /\ status_text = <<>> /\ progress = <<0, 1>>
    /\ summary = <<>>

NoFormat == fmt_in = <<>> /\ fmt_out = <<>>

InitGet ==
    /\ arg_url \in UrlInputs
    /\ net \in NetsFor(arg_url, Responses \cup TransportFailures)
    /\ result = None
    /\ get_log = <<>>
    /\ pc = "call"
    /\ NoBatch
    /\ NoFormat

Call ==
    /\ pc = "call"
    /\ result' = get_page_data(arg_url, net)
    /\ get_log' = get_log \o GetTargets(arg_url)
    /\ pc' = "returned"
    /\ UNCHANGED <<arg_url, net, rows, urls, idx, results, nets, call_log,
                   events, status_text, progress, summary, fmt_in, fmt_out>>

NextGet == Call

SpecGet == InitGet /\ [][NextGet]_vars

-----------------------------------------------------------------------------
(* Shapes of a record, and what went wrong in a call *)

ErrorSentinel == PyStr(<<"Error">>)
NotFoundSentinel == PyStr(<<"Not found">>)

\* every field but url and error at its failure default
FailureDefaults(r) ==
    /\ r.status_code = ErrorSentinel
    /\ r.canonical_url = ErrorSentinel
    /\ ~r.is_self_referring /\ ~r.noindex_found /\ ~r.nofollow_found
    /\ r.meta_title = None /\ r.meta_description = None
    /\ r.title_length = 0 /\ r.desc_length = 0

FailureShape(r) == r.error.t = "str" /\ FailureDefaults(r)

SuccessShape(r) ==
    /\ r.error = None
    /\ r.status_code.t = "int"
    /\ r.canonical_url # ErrorSentinel

IsRecord(r) ==
    DOMAIN r = {"url", "status_code", "canonical_url", "is_self_referring",
                "noindex_found", "nofollow_found", "meta_title", "title_length",
                "meta_description", "desc_length", "error"}

\* the step of get_page_data(url) that fails under answer n, "" if none does
FailingStep(url, n) ==
    IF url.t # "str" THEN "normalization"
    ELSE IF n.kind = "exc" THEN "GET"
    ELSE IF n.page.description.found /\ n.page.description.attr = None
    THEN "extraction"
    ELSE ""

-----------------------------------------------------------------------------
(* Claims about get_page_data, under SpecGet *)

\* C1: get_page_data always returns a record, and whenever a step failed
\* (normalization, the GET, field extraction) the record has exactly the
\* failure shape, its error being the description of the failure (for a failed
\* GET, the message of the exception requests raised).
C1_FailureRecord ==
    pc = "returned" =>
        /\ IsRecord(result)
        /\ FailingStep(arg_url, net) # "" =>
              /\ FailureShape(result)
              /\ Truthy(result.error)
              /\ FailingStep(arg_url, net) = "GET" => result.error = PyStr(net.err)

C1_Witness ==
    /\ pc = "returned"
    /\ FailingStep(arg_url, net) = "extraction"
    /\ net.status = 200
    /\ result.status_code = ErrorSentinel
    /\ result.canonical_url = ErrorSentinel

\* C2: for a fetched page that lacks an expected tag or attribute the record
\* is a success record (error absent, status_code the HTTP integer) in which
\* the affected field has its not-found value.
C2_AnomaliesNotFatal ==
    (pc = "returned" /\ arg_url.t = "str" /\ net.kind = "resp") =>
        LET pg == net.page
            no_canonical == ~pg.canonical.found \/ pg.canonical.attr = None
            no_robots == ~pg.robots.found \/ pg.robots.attr = None
            no_title == ~pg.title.found
            no_description == ~pg.description.found \/ pg.description.attr = None
        IN  (no_canonical \/ no_robots \/ no_title \/ no_description) =>
              /\ result.error = None
              /\ result.status_code = PyInt(net.status)
              /\ no_canonical => (/\ result.canonical_url = NotFoundSentinel
                                  /\ ~result.is_self_referring)
              /\ no_robots => (~result.noindex_found /\ ~result.nofollow_found)
              /\ no_title => (result.meta_title = None /\ result.title_length = 0)
              /\ no_description => (/\ result.meta_description = None
                                    /\ result.desc_length = 0)

\* C3: in a success record, a canonical link whose (non-empty) href resolved
\* against the final URL equals the final URL, trailing slashes stripped on
\* both sides, gives is_self_referring = true; and a page without a canonical
\* link gives canonical_url = "Not found" and is_self_referring = false.
C3_SelfReferring ==
    (pc = "returned" /\ result.error = None) =>
        LET final == response_url(Normalize(arg_url.s), net)
            tag == net.page.canonical
        IN  /\ (/\ tag.found /\ Truthy(tag.attr)
                /\ rstrip(urljoin(final, tag.attr.s), {"/"}) = rstrip(final, {"/"}))
               => result.is_self_referring
            /\ ~tag.found => (/\ result.canonical_url = NotFoundSentinel
                              /\ ~result.is_self_referring)

\* C4: every returned record has exactly one of the two shapes; error is
\* present iff status_code is "Error"; a transport failure never yields an
\* integer status_code; a 4xx/5xx response yields a success record carrying
\* that status.
C4_TwoShapes ==
    pc = "returned" =>
        /\ SuccessShape(result) # FailureShape(result)
        /\ (result.error # None) <=> (result.status_code = ErrorSentinel)
        /\ net.kind = "exc" => result.status_code.t # "int"
        /\ (arg_url.t = "str" /\ net.kind = "resp" /\ net.status >= 400) =>
              (SuccessShape(result) /\ result.status_code = PyInt(net.status))

\* C8: a URL string without one of the two prefixes is requested exactly once,
\* as "https://" followed by the input; one with a prefix is requested
\* unchanged; normalizing the requested URL again changes nothing.
C8_Normalize ==
    (pc = "returned" /\ arg_url.t = "str") =>
        /\ Len(get_log) = 1
        /\ get_log[1] = IF arg_url.s # <<>> /\ arg_url.s[1] \in {"http://", "https://"}
                        THEN arg_url.s
                        ELSE <<"https://">> \o arg_url.s
        /\ Normalize(get_log[1]) = get_log[1]

C8_Witness ==
    /\ pc = "returned"
    /\ arg_url = PyStr(<<"a.com", "/", "p">>)
    /\ get_log = << <<"https://", "a.com", "/", "p">> >>
    /\ result.url = PyStr(<<"https://", "a.com", "/", "p">>)

-----------------------------------------------------------------------------
(* The batch flow (CSV Upload), lines 309-403 *)

\* the pause of line 337, in milliseconds
SleepMillis == 500

\* cells of the URL column: a missing value, two URLs, a number
Cells ==
    {NaN, PyStr(<<"a.com">>), PyStr(<<"https://", "a.com", "/", "p">>), PyFloat(7)}

\* the answers of requests.get in a batch: a transport failure; a full page
\* whose canonical is https://a.com/; a bare 404; a page whose description
\* tag has no content
BatchAnswers ==
    {Raises(<<"ConnectionError">>),
     Responds(200, <<>>,
              [canonical |-> Tag(PyStr(<<"https://", "a.com", "/">>)),
               robots |-> Tag(PyStr(<<"NOINDEX", ", ", "NoFollow">>)),
               title |-> Tag(PyStr(<<" ", "Title", " ">>)),
               description |-> Tag(PyStr(<<"Description", " ">>))]),
     Responds(404, <<>>,
              [canonical |-> NoTag, robots |-> NoTag, title |-> NoTag,
               description |-> NoTag]),
     Responds(200, <<>>,
              [canonical |-> NoTag, robots |-> NoTag,
               title |-> Tag(PyStr(<<" ", "Title", " ">>)),
               description |-> Tag(None)])}

\* df[url_column].tolist(), the missing values kept
dropna_kept(column) == column

\* line 324: df[url_column].dropna().tolist()
dropna(column) == SelectSeq(column, LAMBDA cell : cell.t # "NaN")

\* line 332, as a stop at the first failed record
HasNext_until_error(i) == i + 1 < Len(urls) /\ result.error = None

\* line 332: does enumerate(urls) yield an element after index i
HasNext(i) == i + 1 < Len(urls)

\* line 390
success_count(rs) ==
    Cardinality({k \in 1..Len(rs) : rs[k].status_code = PyInt(200)})

\* line 394
canonical_issues(rs) ==
    Cardinality({k \in 1..Len(rs) :
                   /\ ~rs[k].is_self_referring
                   /\ rs[k].canonical_url # PyStr(<<"Not found">>)})

\* line 398
noindex_count(rs) == Cardinality({k \in 1..Len(rs) : rs[k].noindex_found})

\* line 402
missing_titles(rs) == Cardinality({k \in 1..Len(rs) : ~Truthy(rs[k].meta_title)})

NoGet == arg_url = None /\ net = NoCall

\* read_csv gives a column one type: its values are all str or all numbers,
\* missing values aside
OneType(column) ==
    \A j, k \in 1..Len(column) :
        (column[j] # NaN /\ column[k] # NaN) => column[j].t = column[k].t

InitBatch ==
    /\ rows \in {column \in SeqsUpTo(Cells, MaxRows) : OneType(column)}
    /\ urls = <<>> /\ idx = 0 /\ results = <<>> /\ nets = <<>>
    /\ call_log = <<>> /\ events = <<>> /\ status_text = <<>>
    /\ progress = <<0, 1>> /\ summary = <<>>
    /\ result = None /\ get_log = <<>>
    /\ pc = "upload"
    /\ NoGet
    /\ NoFormat

\* lines 312-325: read the file, take the URL column
ReadCSV ==
    /\ pc = "upload"
    /\ urls' = dropna(rows)
    /\ pc' = "button"
    /\ UNCHANGED <<arg_url, net, result, get_log, rows, idx, results, nets,
                   call_log, events, status_text, progress, summary, fmt_in,
                   fmt_out>>

\* lines 327-332: the button; results = [], the progress bar at 0
ClickAnalyze ==
    /\ pc = "button"
    /\ results' = <<>>
    /\ progress' = <<0, 1>>
    /\ idx' = 0
    /\ pc' = IF urls = <<>> THEN "l339" ELSE "l333"
    /\ UNCHANGED <<arg_url, net, result, get_log, rows, urls, nets, call_log,
                   events, status_text, summary, fmt_in, fmt_out>>

\* line 333
ShowStatus ==
    /\ pc = "l333"
    /\ status_text' = <<"Analyzing", idx + 1, Len(urls), urls[idx + 1]>>
    /\ events' = Append(events, <<"status", idx>>)
    /\ pc' = "l334"
    /\ UNCHANGED <<arg_url, net, result, get_log, rows, urls, idx, results,
                   nets, call_log, progress, summary, fmt_in, fmt_out>>

\* line 334: get_page_data(url) is entered and runs up to the answer of
\* requests.get
CallGetPageData ==
    /\ pc = "l334"
    /\ \E n \in NetsFor(urls[idx + 1], BatchAnswers) : nets' = Append(nets, n)
    /\ call_log' = Append(call_log, urls[idx + 1])
    /\ get_log' = get_log \o GetTargets(urls[idx + 1])
    /\ events' = Append(events, <<"call", idx>>)
    /\ pc' = "in_call"
    /\ UNCHANGED <<arg_url, net, result, rows, urls, idx, results, status_text,
                   progress, summary, fmt_in, fmt_out>>

\* line 334: get_page_data returns, result is assigned
ReturnGetPageData ==
    /\ pc = "in_call"
    /\ result' = get_page_data(urls[idx + 1], nets[Len(nets)])
    /\ events' = Append(events, <<"return", idx>>)
    /\ pc' = "l335"
    /\ UNCHANGED <<arg_url, net, get_log, rows, urls, idx, results, nets,
                   call_log, status_text, progress, summary, fmt_in, fmt_out>>

\* line 335
AppendResult ==
    /\ pc = "l335"
    /\ results' = Append(results, result)
    /\ events' = Append(events, <<"append", idx>>)
    /\ pc' = "l336"
    /\ UNCHANGED <<arg_url, net, result, get_log, rows, urls, idx, nets,
                   call_log, status_text, progress, summary, fmt_in, fmt_out>>

\* line 336
ShowProgress ==
    /\ pc = "l336"
    /\ progress' = <<idx + 1, Len(urls)>>
    /\ events' = Append(events, <<"progress", idx + 1>>)
    /\ pc' = "l337"
    /\ UNCHANGED <<arg_url, net, result, get_log, rows, urls, idx, results,
                   nets, call_log, status_text, summary, fmt_in, fmt_out>>

\* the end of the loop body without line 337
Sleep_skipped ==
    /\ pc = "l337"
    /\ IF HasNext(idx)
       THEN idx' = idx + 1 /\ pc' = "l333"
       ELSE idx' = idx /\ pc' = "l339"
    /\ UNCHANGED <<arg_url, net, result, get_log, rows, urls, results, nets,
                   call_log, events, status_text, progress, summary, fmt_in,
                   fmt_out>>

\* line 337, then the loop head of line 332
Sleep ==
    /\ pc = "l337"
    /\ events' = Append(events, <<"sleep", SleepMillis>>)
    /\ IF HasNext(idx)
       THEN idx' = idx + 1 /\ pc' = "l333"
       ELSE idx' = idx /\ pc' = "l339"
    /\ UNCHANGED <<arg_url, net, result, get_log, rows, urls, results, nets,
                   call_log, status_text, progress, summary, fmt_in, fmt_out>>

\* line 339
Complete ==
    /\ pc = "l339"
    /\ status_text' = <<"Analysis complete!">>
    /\ pc' = "l389"
    /\ UNCHANGED <<arg_url, net, result, get_log, rows, urls, idx, results,
                   nets, call_log, events, progress, summary, fmt_in, fmt_out>>

\* lines 389-403: the four counters
Summarize ==
    /\ pc = "l389"
    /\ summary' = [success_count |-> success_count(results),
                   canonical_issues |-> canonical_issues(results),
                   noindex_count |-> noindex_count(results),
                   missing_titles |-> missing_titles(results)]
    /\ pc' = "done"
    /\ UNCHANGED <<arg_url, net, result, get_log, rows, urls, idx, results,
                   nets, call_log, events, status_text, progress, fmt_in,
                   fmt_out>>

\* the steps the script takes by itself once the button is pressed
Program ==
    \/ ShowStatus
    \/ CallGetPageData
    \/ ReturnGetPageData
    \/ AppendResult
    \/ ShowProgress
    \/ Sleep
    \/ Complete
    \/ Summarize

NextBatch == ReadCSV \/ ClickAnalyze \/ Program

SpecBatch == InitBatch /\ [][NextBatch]_vars

\* the script is one thread that runs every statement it reaches: each call
\* of requests.get ends (timeout=10), time.sleep(0.5) ends
FairBatch == SpecBatch /\ WF_vars(Program)

-----------------------------------------------------------------------------
(* format_meta_content, lines 198-219 *)

\* s[:n], for a str of one-character tokens
PySlice(s, n) == SubSeq(s, 1, IF n < Len(s) THEN n ELSE Len(s))

\* the markup of line 217: the text shown, the class and the number of the badge
Badge(content, length_color, length) ==
    [kind |-> "badge",
     text |-> PySlice(content.s, 100)
                \o (IF PyLen(content.s) > 100 THEN <<"...">> ELSE <<>>),
     class |-> length_color, length |-> length, field |-> ""]

\* the markup of line 219
Missing(field_name) ==
    [kind |-> "missing", text |-> <<>>, class |-> "error-message", length |-> 0,
     field |-> field_name]

\* format_meta_content with the lower ends of the bands excluded
format_meta_content_strict(content, length, field_name) ==
    IF Truthy(content)
    THEN IF field_name = "title"
         THEN IF 30 < length /\ length <= 60
              THEN Badge(content, "tag-good", length)
              ELSE Badge(content, "tag-warning", length)
         ELSE IF 120 < length /\ length <= 160
              THEN Badge(content, "tag-good", length)
              ELSE Badge(content, "tag-warning", length)
    ELSE Missing(field_name)

\* lines 198-219
format_meta_content(content, length, field_name) ==
    IF Truthy(content)
    THEN IF field_name = "title"
         THEN IF 30 <= length /\ length <= 60
              THEN Badge(content, "tag-good", length)
              ELSE IF length < 30 \/ length > 60
              THEN Badge(content, "tag-warning", length)
              ELSE Badge(content, "tag-warning", length)
         ELSE IF 120 <= length /\ length <= 160
              THEN Badge(content, "tag-good", length)
              ELSE IF length < 120 \/ length > 160
              THEN Badge(content, "tag-warning", length)
              ELSE Badge(content, "tag-warning", length)
    ELSE Missing(field_name)

\* a str of n characters
Xs(n) == [k \in 1..n |-> "x"]

\* the arguments the two flows pass (lines 285-286, 368-369): a title or a
\* description with its length, or None with length 0
FormatInputs ==
    {[content |-> PyStr(Xs(l)), length |-> l, field_name |-> f] :
        l \in 0..MaxLength, f \in {"title", "description"}}
      \cup {[content |-> None, length |-> 0, field_name |-> f] :
              f \in {"title", "description"}}

InitFormat ==
    /\ fmt_in \in FormatInputs
    /\ fmt_out = <<>>
    /\ pc = "format"
    /\ result = None /\ get_log = <<>>
    /\ NoGet
    /\ NoBatch

Format ==
    /\ pc = "format"
    /\ fmt_out' = format_meta_content(fmt_in.content, fmt_in.length, fmt_in.field_name)
    /\ pc' = "formatted"
    /\ UNCHANGED <<arg_url, net, result, get_log, rows, urls, idx, results,
                   nets, call_log, events, status_text, progress, summary,
                   fmt_in>>

NextFormat == Format

SpecFormat == InitFormat /\ [][NextFormat]_vars

\* C9: with non-empty content the badge is "tag-good" iff the length lies in
\* the inclusive band of the field (30..60 for a title, 120..160 for a
\* description) and "tag-warning" for every other length, the ends of the
\* bands being good and their neighbours 29, 61, 119 and 161 warning; absent
\* content gives the "missing <field>" marker and no badge.
C9_LengthBadge ==
    pc = "formatted" =>
        LET l == fmt_in.length
            title == fmt_in.field_name = "title"
            in_band == IF title THEN l \in 30..60 ELSE l \in 120..160
        IN  IF fmt_in.content # None /\ fmt_in.content.s # <<>>
            THEN /\ fmt_out.kind = "badge"
                 /\ fmt_out.length = l
                 /\ fmt_out.class = IF in_band THEN "tag-good" ELSE "tag-warning"
                 /\ (title /\ l \in {30, 60}) => fmt_out.class = "tag-good"
                 /\ (title /\ l \in {29, 61}) => fmt_out.class = "tag-warning"
                 /\ (~title /\ l \in {120, 160}) => fmt_out.class = "tag-good"
                 /\ (~title /\ l \in {119, 161}) => fmt_out.class = "tag-warning"
            ELSE /\ fmt_out.kind = "missing"
                 /\ fmt_out.field = fmt_in.field_name

C9_Witness ==
    /\ pc = "formatted"
    /\ fmt_in.field_name = "description"
    /\ fmt_in.length = 161
    /\ fmt_out.class = "tag-warning"
    /\ Len(fmt_out.text) = 101

-----------------------------------------------------------------------------
(* Claims about the batch flow, under SpecBatch and FairBatch *)

RECURSIVE NonBlank(_)
\* the non-empty values of the URL column, in row order
NonBlank(column) ==
    IF column = <<>> THEN <<>>
    ELSE IF Head(column) = NaN THEN NonBlank(Tail(column))
    ELSE <<Head(column)>> \o NonBlank(Tail(column))

LoopFinished == pc \in {"l339", "l389", "done"}

\* C5: at every point of the loop the results so far are the analyses of the
\* first non-empty URLs of the column, in row order (record k is what
\* get_page_data makes of the k-th non-empty URL and the answer its request
\* got); once the loop has finished there is exactly one record for each
\* non-empty URL and none for a blank row.
C5_OrderedOnePerUrl ==
    pc # "upload" =>
        /\ Len(results) <= Len(NonBlank(rows))
        /\ \A k \in 1..Len(results) :
              results[k] = get_page_data(NonBlank(rows)[k], nets[k])
        /\ LoopFinished => Len(results) = Len(NonBlank(rows))

C5_Witness ==
    /\ pc = "done"
    /\ rows = <<PyStr(<<"a.com">>), NaN, PyStr(<<"https://", "a.com", "/", "p">>)>>
    /\ Len(results) = 2
    /\ results[1].url = PyStr(<<"https://", "a.com">>)
    /\ results[2].url = PyStr(<<"https://", "a.com", "/", "p">>)

BatchStarted == pc \notin {"upload", "button"}

\* the batch has ended with every URL analysed once, in order
BatchCompleted ==
    /\ status_text = <<"Analysis complete!">>
    /\ call_log = urls
    /\ Len(results) = Len(urls)
    /\ \A k \in 1..Len(urls) :
          /\ results[k] = get_page_data(urls[k], nets[k])
          /\ FailingStep(urls[k], nets[k]) # "" => FailureShape(results[k])
          /\ FailingStep(urls[k], nets[k]) = "" => SuccessShape(results[k])

\* C6: once started, the batch eventually reaches "Analysis complete!" with
\* get_page_data invoked exactly once for every input URL, in order, a failure
\* record at every position whose URL failed and the records of the other
\* URLs as their own analysis gives them, whatever subset of URLs failed.
C6_RunsToCompletion == BatchStarted ~> BatchCompleted

C6_Witness ==
    /\ BatchCompleted
    /\ Len(urls) = 3
    /\ FailingStep(urls[1], nets[1]) = "GET"
    /\ FailingStep(urls[2], nets[2]) = ""
    /\ FailingStep(urls[3], nets[3]) = "extraction"

\* the canonical of record r exists (found on a fetched page) and is not
\* self-referring
CanonicalIssue(r) ==
    /\ r.error = None
    /\ r.canonical_url # NotFoundSentinel
    /\ ~r.is_self_referring

\* C7: the "Canonical Issues" counter is the number of records whose canonical
\* exists and is not self-referring (a record without canonical, or of a
\* failed fetch, is not counted), and the success counter is the number of
\* records with status_code == 200.
C7_SummaryCounters ==
    pc = "done" =>
        /\ summary.canonical_issues
             = Cardinality({k \in 1..Len(results) : CanonicalIssue(results[k])})
        /\ summary.success_count
             = Cardinality({k \in 1..Len(results) :
                              results[k].status_code = PyInt(200)})

EventsOf(kind) == {p \in 1..Len(events) : events[p][1] = kind}

\* C10: the loop is sequential and paced: a call starts only when every
\* earlier call has returned; the return of call i is followed, in this
\* order, by the append of result i, the progress report i+1/total and one
\* 0.5-second sleep; and a sleep lies between any two calls.
C10_SequentialPaced ==
    /\ Cardinality(EventsOf("call")) - Cardinality(EventsOf("return")) \in {0, 1}
    /\ \A p \in EventsOf("call") :
          Cardinality({q \in EventsOf("return") : q < p})
            = Cardinality({q \in EventsOf("call") : q < p})
    /\ \A p \in EventsOf("return") :
          /\ p + 1 <= Len(events) => events[p + 1] = <<"append", events[p][2]>>
          /\ p + 2 <= Len(events) => events[p + 2] = <<"progress", events[p][2] + 1>>
          /\ p + 3 <= Len(events) => events[p + 3] = <<"sleep", 500>>
    /\ \A p \in EventsOf("progress") :
          p = Len(events) => progress = <<events[p][2], Len(urls)>>
    /\ \A p, q \in EventsOf("call") :
          p < q => \E d \in EventsOf("sleep") : p < d /\ d < q
    /\ Len(results) = Cardinality(EventsOf("append"))

C10_Witness ==
    /\ pc = "in_call"
    /\ idx = 1
    /\ Len(events) >= 7
    /\ events[Len(events)] = <<"call", 1>>
    /\ events[Len(events) - 2] = <<"sleep", 500>>

====
